---- MODULE Spec2Model ----
(***************************************************************************)
(* Model of pdf_a_excel.py: the page range resolver, the date and number   *)
(* detectors, the column-level type inference, the worksheet formatter     *)
(* (_aplicar_formatos_hoja), the extraction orchestrator (procesar_pdf)    *)
(* and the batch driver (main).                                            *)
(*                                                                         *)
(* Python strings are modelled as sequences of one-character strings, so   *)
(* that strip, lower, split, the regular expressions, int(), float() and   *)
(* strptime() are computed character by character as the interpreter       *)
(* computes them.  A Python exception is the field exc of a result record. *)
(***************************************************************************)
EXTENDS Integers, Sequences, FiniteSets, TLC

VARIABLES
    \* ---- parse_rango_paginas harness
    paginas_str,      \* the selector handed to parse_rango_paginas
    total_paginas,    \* the page count handed to parse_rango_paginas
    res_paginas,      \* its outcome: [exc, val]
    \* ---- _parsear_fecha harness
    val_fecha,        \* the string handed to _parsear_fecha
    res_fecha,        \* its outcome: [hecho, fecha, probados]
    \* ---- _parsear_numero harness
    val_num,          \* the string handed to _parsear_numero
    res_num,          \* its outcome: [hecho, num, forma]
    \* ---- auto_convertir_tipos harness (one object column of the DataFrame)
    col,              \* the column's cells: [nulo, s]
    res_col,          \* the converted column: [hecho, tipo, valores]
    \* ---- main and procesar_pdf
    args,             \* the parsed command line: modo, batch, paginas, modo_texto, ...
    entrada,          \* what the input path is: [tipo, pdfs] (file, directory, nothing)
    estado,           \* where main is
    pdfs,             \* sorted(entrada.glob("*.pdf")), or the single input file
    idx,              \* the position of the for loop of main in pdfs
    errores,          \* the names of the files whose processing raised
    pc,               \* where procesar_pdf is for the current file
    tablas,           \* procesar_pdf: the tables found, each by its number of rows
    df,               \* procesar_pdf: the frame of extracted text
    exc,              \* the function whose exception is propagating, or ""
    mensaje,          \* the outcome procesar_pdf printed for the current file
    escritos,         \* the files whose spreadsheet has been written
    llamadas,         \* history: the calls procesar_pdf made for the current file
    textos,           \* history: the text of each page extraer_texto read
    procesados,       \* history: the files handed to procesar_pdf, in order
    lanzaron,         \* history: the files whose procesar_pdf raised, in order
    \* ---- _aplicar_formatos_hoja harness
    ws,               \* the worksheet: its columns, each [cabecera, celdas]
    res_ws            \* the worksheet after formatting: [hecho, columnas]

varsPag == <<paginas_str, total_paginas, res_paginas>>
varsFecha == <<val_fecha, res_fecha>>
varsNum == <<val_num, res_num>>
varsCol == <<col, res_col>>
varsMain == <<args, entrada, estado, pdfs, idx, errores, pc, tablas, df, exc,
              mensaje, escritos, llamadas, textos, procesados, lanzaron>>

varsHoja == <<ws, res_ws>>

vars == <<varsPag, varsFecha, varsNum, varsCol, varsMain, varsHoja>>

-----------------------------------------------------------------------------
(* Bounds of the model *)

\* longest selector drawn from the selector alphabet
MaxLenSel == 4
\* longest string drawn from the number alphabet
MaxLenNum == 5
\* most rows of a column drawn from the full cell alphabet
MaxFilas == 4
\* rows of the long columns, drawn from a date cell and a text cell
FilasLargas == 10
\* largest page count of a document
MaxPaginas == 2
\* most .pdf files in the input directory
MaxArchivos == 2
\* most data rows of a worksheet drawn from the full cell alphabet
MaxFilasHoja == 3
\* length of the long text cell, above the cap of text lengths
LargoTexto == 60
\* length of the long header, above the cap of widths less the padding
LargoCabecera == 53

-----------------------------------------------------------------------------
(* Python string primitives *)

Digitos == {"0", "1", "2", "3", "4", "5", "6", "7", "8", "9"}

ValorDigito(c) ==
    CASE c = "0" -> 0 [] c = "1" -> 1 [] c = "2" -> 2 [] c = "3" -> 3
      [] c = "4" -> 4 [] c = "5" -> 5 [] c = "6" -> 6 [] c = "7" -> 7
      [] c = "8" -> 8 [] c = "9" -> 9

\* the characters str.strip() removes (those the model's alphabets hold)
Espacios == {" ", "\t", "\n"}

MinDe(S) == CHOOSE x \in S : \A y \in S : x <= y
MaxDe(S) == CHOOSE x \in S : \A y \in S : y <= x

\* sorted(S) for a finite set of integers
RECURSIVE Sorted(_)
Sorted(S) == IF S = {} THEN <<>>
             ELSE LET m == MinDe(S) IN <<m>> \o Sorted(S \ {m})

\* str.strip()
Strip(s) ==
    LET keep == {k \in 1..Len(s) : s[k] \notin Espacios}
    IN IF keep = {} THEN <<>> ELSE SubSeq(s, MinDe(keep), MaxDe(keep))

LowerChar(c) ==
    CASE c = "A" -> "a" [] c = "L" -> "l" [] OTHER -> c

\* str.lower() (on the letters the model's alphabets hold)
Lower(s) == [k \in 1..Len(s) |-> LowerChar(s[k])]

\* str.split(c): the pieces between the occurrences of c
Split(s, c) ==
    LET cortes == Sorted({k \in 1..Len(s) : s[k] = c})
        n == Len(cortes)
    IN [j \in 1..(n + 1) |->
          SubSeq(s, IF j = 1 THEN 1 ELSE cortes[j - 1] + 1,
                    IF j = n + 1 THEN Len(s) ELSE cortes[j] - 1)]

\* str.split(c, 1) of a string that holds c: the text before and after the first c
SplitFirst(s, c) ==
    LET k == MinDe({j \in 1..Len(s) : s[j] = c})
    IN <<SubSeq(s, 1, k - 1), SubSeq(s, k + 1, Len(s))>>

Contiene(s, c) == \E k \in 1..Len(s) : s[k] = c

TodosEn(s, C) == \A k \in 1..Len(s) : s[k] \in C

\* the value of a non-empty string of decimal digits
RECURSIVE ValorDecimal(_)
ValorDecimal(d) ==
    IF d = <<>> THEN 0
    ELSE 10 * ValorDecimal(SubSeq(d, 1, Len(d) - 1)) + ValorDigito(d[Len(d)])

Ok(v) == [exc |-> "", val |-> v]
ValueError(v) == [exc |-> "ValueError", val |-> v]

\* int(s): surrounding whitespace, an optional sign, then decimal digits only;
\* anything else raises ValueError
IntPy(s) ==
    LET t == Strip(s)
        signo == Len(t) > 0 /\ t[1] \in {"-", "+"}
        d == IF signo THEN Tail(t) ELSE t
    IN IF d # <<>> /\ TodosEn(d, Digitos)
       THEN Ok((IF signo /\ t[1] = "-" THEN -1 ELSE 1) * ValorDecimal(d))
       ELSE ValueError(0)

-----------------------------------------------------------------------------
(* parse_rango_paginas *)

\* the literal "all"
StrAll == <<"a", "l", "l">>

\* range(total_paginas) as a list
RangoCompleto(total) == [k \in 1..total |-> k - 1]

\* IndicesDeParte without the lower bound of the page test (p <= total only)
IndicesDeParte_sinCotaInferior(parte0, total) ==
    LET parte == Strip(parte0)
    IN IF Contiene(parte, "-")
       THEN LET sp == SplitFirst(parte, "-")
                ini == IntPy(sp[1])
                fin == IntPy(sp[2])
            IN IF ini.exc # "" \/ fin.exc # "" THEN ValueError({})
               ELSE Ok({p - 1 : p \in {q \in ini.val..fin.val : q <= total}})
       ELSE LET p == IntPy(parte)
            IN IF p.exc # "" THEN ValueError({})
               ELSE Ok(IF p.val <= total THEN {p.val - 1} ELSE {})

\* the pages one part of the selector adds: [exc, val], val the set of indices.
\* A part holding "-" is split at its first "-" into ini and fin.
IndicesDeParte(parte0, total) ==
    LET parte == Strip(parte0)
    IN IF Contiene(parte, "-")
       THEN LET sp == SplitFirst(parte, "-")
                ini == IntPy(sp[1])
                fin == IntPy(sp[2])
            IN IF ini.exc # "" \/ fin.exc # "" THEN ValueError({})
               ELSE Ok({p - 1 : p \in {q \in ini.val..fin.val : 1 <= q /\ q <= total}})
       ELSE LET p == IntPy(parte)
            IN IF p.exc # "" THEN ValueError({})
               ELSE Ok(IF 1 <= p.val /\ p.val <= total THEN {p.val - 1} ELSE {})

\* the for loop over the parts, from part k on, with the indices found so far
RECURSIVE BuclePartes(_, _, _, _)
BuclePartes(partes, k, indices, total) ==
    IF k > Len(partes) THEN Ok(Sorted(indices))
    ELSE LET r == IndicesDeParte(partes[k], total)
         IN IF r.exc # "" THEN ValueError(<<>>)
            ELSE BuclePartes(partes, k + 1, indices \cup r.val, total)

parse_rango_paginas(s, total) ==
    IF Lower(Strip(s)) = StrAll THEN Ok(RangoCompleto(total))
    ELSE BuclePartes(Split(s, ","), 1, {}, total)

-----------------------------------------------------------------------------
(* The date detector: _PATRON_FECHA, _FORMATOS_FECHA, _parsear_fecha *)

SepFecha == {"/", "-"}

\* _PATRON_FECHA.match(s): ^\d{1,2}[/\-]\d{1,2}[/\-]\d{2,4}$
PatronFecha(s) ==
    \E a \in 1..2, b \in 1..2, c \in 2..4 :
        /\ Len(s) = a + b + c + 2
        /\ TodosEn(SubSeq(s, 1, a), Digitos)
        /\ s[a + 1] \in SepFecha
        /\ TodosEn(SubSeq(s, a + 2, a + b + 1), Digitos)
        /\ s[a + b + 2] \in SepFecha
        /\ TodosEn(SubSeq(s, a + b + 3, Len(s)), Digitos)

Directivas == {"%d", "%m", "%Y", "%y"}

\* the regular expression strptime compiles for each directive: its alternatives
\* in order, each a sequence of character classes
\*   %d  3[0-1]|[1-2]\d|0[1-9]|[1-9]| [1-9]
\*   %m  1[0-2]|0[1-9]|[1-9]
\*   %Y  \d\d\d\d
\*   %y  \d\d
Digitos19 == Digitos \ {"0"}

Alternativas(dir) ==
    CASE dir = "%d" -> << <<{"3"}, {"0", "1"}>>, <<{"1", "2"}, Digitos>>,
                          <<{"0"}, Digitos19>>, <<Digitos19>>, <<{" "}, Digitos19>> >>
      [] dir = "%m" -> << <<{"1"}, {"0", "1", "2"}>>, <<{"0"}, Digitos19>>, <<Digitos19>> >>
      [] dir = "%Y" -> << <<Digitos, Digitos, Digitos, Digitos>> >>
      [] dir = "%y" -> << <<Digitos, Digitos>> >>

\* whether the alternative alt matches s at position pos
AlternativaCasa(s, pos, alt) ==
    /\ pos + Len(alt) - 1 <= Len(s)
    /\ \A j \in 1..Len(alt) : s[pos + j - 1] \in alt[j]

SinCampos == [d |-> 0, m |-> 0, Y |-> -1, y |-> -1]

NoCasa == [ok |-> FALSE, campos |-> SinCampos, fin |-> 0]

ConCampo(campos, dir, v) ==
    CASE dir = "%d" -> [campos EXCEPT !.d = v]
      [] dir = "%m" -> [campos EXCEPT !.m = v]
      [] dir = "%Y" -> [campos EXCEPT !.Y = v]
      [] dir = "%y" -> [campos EXCEPT !.y = v]

\* format_regex.match(data_string): the format's elements from element k on,
\* matched at position pos; a directive's alternatives are tried in order and the
\* matcher backtracks to the next alternative when the rest of the format fails
RECURSIVE Emparejar(_, _, _, _, _)
RECURSIVE ProbarAlternativas(_, _, _, _, _, _)
Emparejar(s, pos, fmt, k, campos) ==
    IF k > Len(fmt) THEN [ok |-> TRUE, campos |-> campos, fin |-> pos - 1]
    ELSE IF fmt[k] \in Directivas
         THEN ProbarAlternativas(s, pos, fmt, k, campos, 1)
         ELSE IF pos <= Len(s) /\ s[pos] = fmt[k]
              THEN Emparejar(s, pos + 1, fmt, k + 1, campos)
              ELSE NoCasa

ProbarAlternativas(s, pos, fmt, k, campos, a) ==
    IF a > Len(Alternativas(fmt[k])) THEN NoCasa
    ELSE LET alt == Alternativas(fmt[k])[a]
             r == IF AlternativaCasa(s, pos, alt)
                  THEN Emparejar(s, pos + Len(alt), fmt, k + 1,
                         ConCampo(campos, fmt[k],
                           IntPy(SubSeq(s, pos, pos + Len(alt) - 1)).val))
                  ELSE NoCasa
         IN IF r.ok THEN r
            ELSE ProbarAlternativas(s, pos, fmt, k, campos, a + 1)

EsBisiesto(y) == y % 4 = 0 /\ (y % 100 # 0 \/ y % 400 = 0)

DiasDelMes(y, m) ==
    IF m = 2 THEN (IF EsBisiesto(y) THEN 29 ELSE 28)
    ELSE IF m \in {4, 6, 9, 11} THEN 30 ELSE 31

\* the dates datetime(y, m, d) accepts
FechaValida(y, m, d) ==
    /\ 1 <= y /\ y <= 9999
    /\ 1 <= m /\ m <= 12
    /\ 1 <= d /\ d <= DiasDelMes(y, m)

\* a two-digit year: 69..99 are 1969..1999, 0..68 are 2000..2068
AnioDeDosDigitos(y) == IF y <= 68 THEN 2000 + y ELSE 1900 + y

Fecha(y, m, d) == [ok |-> TRUE, y |-> y, m |-> m, d |-> d]
NoneFecha == [ok |-> FALSE, y |-> 0, m |-> 0, d |-> 0]

\* datetime.strptime(s, fmt): ValueError when the format does not match at the
\* start, when unconverted data remains, or when the date does not exist
strptime(s, fmt) ==
    LET r == Emparejar(s, 1, fmt, 1, SinCampos)
    IN IF ~r.ok \/ r.fin # Len(s) THEN ValueError(NoneFecha)
       ELSE LET y == IF r.campos.Y # -1 THEN r.campos.Y
                     ELSE AnioDeDosDigitos(r.campos.y)
            IN IF FechaValida(y, r.campos.m, r.campos.d)
               THEN Ok(Fecha(y, r.campos.m, r.campos.d))
               ELSE ValueError(NoneFecha)

_FORMATOS_FECHA_mesPrimero ==
    << <<"%m", "/", "%d", "/", "%Y">>, <<"%d", "/", "%m", "/", "%Y">>,
       <<"%m", "-", "%d", "-", "%Y">>, <<"%d", "-", "%m", "-", "%Y">>,
       <<"%m", "/", "%d", "/", "%y">>, <<"%d", "/", "%m", "/", "%y">>,
       <<"%m", "-", "%d", "-", "%y">>, <<"%d", "-", "%m", "-", "%y">>,
       <<"%Y", "-", "%m", "-", "%d">>, <<"%Y", "/", "%m", "/", "%d">> >>

_FORMATOS_FECHA ==
    << <<"%d", "/", "%m", "/", "%Y">>, <<"%m", "/", "%d", "/", "%Y">>,
       <<"%d", "-", "%m", "-", "%Y">>, <<"%m", "-", "%d", "-", "%Y">>,
       <<"%d", "/", "%m", "/", "%y">>, <<"%m", "/", "%d", "/", "%y">>,
       <<"%d", "-", "%m", "-", "%y">>, <<"%m", "-", "%d", "-", "%y">>,
       <<"%Y", "-", "%m", "-", "%d">>, <<"%Y", "/", "%m", "/", "%d">> >>

\* the for loop of _parsear_fecha from template k on: the date of the first
\* template that parses and the number of templates tried
RECURSIVE BucleFormatos(_, _)
BucleFormatos(s, k) ==
    IF k > Len(_FORMATOS_FECHA) THEN [fecha |-> NoneFecha, probados |-> k - 1]
    ELSE LET r == strptime(s, _FORMATOS_FECHA[k])
         IN IF r.exc = "" THEN [fecha |-> r.val, probados |-> k]
            ELSE BucleFormatos(s, k + 1)

\* _parsear_fecha with the number of templates it handed to strptime
ParsearFechaTraza(val) ==
    LET s == Strip(val)
    IN IF ~PatronFecha(s) THEN [fecha |-> NoneFecha, probados |-> 0]
       ELSE BucleFormatos(s, 1)

_parsear_fecha(val) == ParsearFechaTraza(val).fecha

-----------------------------------------------------------------------------
(* The number detector: _parsear_numero *)

\* str.replace(old, new) for a one-character old and a string new
RECURSIVE Replace(_, _, _)
Replace(s, old, new) ==
    IF s = <<>> THEN <<>>
    ELSE (IF Head(s) = old THEN new ELSE <<Head(s)>>) \o Replace(Tail(s), old, new)

\* a float as the exact decimal mant / 10^exp
Numero(mant, exp) == [ok |-> TRUE, mant |-> mant, exp |-> exp]
NoneNumero == [ok |-> FALSE, mant |-> 0, exp |-> 0]

\* float(s) on the strings the shapes let through: an optional sign, digits
\* with at most one point and at least one digit; anything else raises ValueError
FloatPy(s) ==
    LET t == Strip(s)
        signo == Len(t) > 0 /\ t[1] \in {"-", "+"}
        u == IF signo THEN Tail(t) ELSE t
        puntos == {k \in 1..Len(u) : u[k] = "."}
        d == Replace(u, ".", <<>>)
    IN IF d # <<>> /\ TodosEn(d, Digitos) /\ Cardinality(puntos) <= 1
       THEN Ok(Numero((IF signo /\ t[1] = "-" THEN -1 ELSE 1) * ValorDecimal(d),
                      IF puntos = {} THEN 0 ELSE Len(u) - MinDe(puntos)))
       ELSE ValueError(NoneNumero)

\* the text after the optional leading minus sign of the patterns (-?)
SinMenos(s) == IF Len(s) > 0 /\ s[1] = "-" THEN Tail(s) ELSE s

\* C+ sep \d+ : a non-empty run of class C, the separator, a non-empty run of digits
ClaseSepDigitos(t, C, c) ==
    \E k \in 2..(Len(t) - 1) :
        /\ t[k] = c
        /\ TodosEn(SubSeq(t, 1, k - 1), C)
        /\ TodosEn(SubSeq(t, k + 1, Len(t)), Digitos)

\* ^-?[\d,]+\.\d+$
FormaAmericana(s) == ClaseSepDigitos(SinMenos(s), Digitos \cup {","}, ".")

\* ^-?[\d.]+,\d+$
FormaEuropea(s) == ClaseSepDigitos(SinMenos(s), Digitos \cup {"."}, ",")

\* ^-?[\d,]+$ and "," in val
FormaEnteroConComas(s) ==
    /\ SinMenos(s) # <<>>
    /\ TodosEn(SinMenos(s), Digitos \cup {","})
    /\ Contiene(s, ",")

\* ^-?\d+\.?\d*$
FormaSimple(s) ==
    LET t == SinMenos(s)
    IN \E a \in 1..Len(t) :
        /\ TodosEn(SubSeq(t, 1, a), Digitos)
        /\ \/ a = Len(t)
           \/ TodosEn(SubSeq(t, a + 1, Len(t)), Digitos)
           \/ t[a + 1] = "." /\ TodosEn(SubSeq(t, a + 2, Len(t)), Digitos)

\* float() of the text, None on ValueError
FloatONone(s) == IF FloatPy(s).exc = "" THEN FloatPy(s).val ELSE NoneNumero

\* _parsear_numero with the shape that decided: the tests in the order of the code
ParsearNumeroTraza(val0) ==
    LET v == Strip(val0)
        val == Replace(v, " ", <<>>)
    IN IF v = <<>> THEN [num |-> NoneNumero, forma |-> "vacia"]
       ELSE IF FormaAmericana(val)
            THEN [num |-> FloatONone(Replace(val, ",", <<>>)), forma |-> "americana"]
       ELSE IF FormaEuropea(val)
            THEN [num |-> FloatONone(Replace(Replace(val, ".", <<>>), ",", <<".">>)),
                  forma |-> "europea"]
       ELSE IF FormaEnteroConComas(val)
            THEN [num |-> FloatONone(Replace(val, ",", <<>>)), forma |-> "entero_comas"]
       ELSE IF FormaSimple(val)
            THEN [num |-> FloatONone(val), forma |-> "simple"]
       ELSE [num |-> NoneNumero, forma |-> "ninguna"]

_parsear_numero(val) == ParsearNumeroTraza(val).num

-----------------------------------------------------------------------------
(* Column-level inference: auto_convertir_tipos on one object column *)

\* a cell of an object column: a string, or a missing value (None / NaN)
Texto(s) == [nulo |-> FALSE, s |-> s]
Nulo == [nulo |-> TRUE, s |-> <<>>]

\* str(x) of a cell, as astype(str) gives it: a missing value becomes "None"
AStr(c) == IF c.nulo THEN <<"N", "o", "n", "e">> ELSE c.s

\* muestra: the cells left by dropna() and by the test strip() != ""
Muestra(c) == SelectSeq(c, LAMBDA x : ~x.nulo /\ Strip(AStr(x)) # <<>>)

\* fechas.notna().sum() and nums.notna().sum()
CuantasFechas(m) == Cardinality({k \in 1..Len(m) : _parsear_fecha(AStr(m[k])).ok})
CuantosNumeros(m) == Cardinality({k \in 1..Len(m) : _parsear_numero(AStr(m[k])).ok})

\* the promotion threshold 0.6 as the fraction UmbralNum / UmbralDen
UmbralNum == 3
UmbralDen == 5

\* ratio >= 0.6 and count >= 1, with ratio = cuenta / len(muestra)
MayoriaEstricta(cuenta, n) == UmbralDen * cuenta > UmbralNum * n /\ cuenta >= 1

Mayoria(cuenta, n) == UmbralDen * cuenta >= UmbralNum * n /\ cuenta >= 1

\* pd.to_datetime(..., errors="coerce") of a parsed date: with nanosecond
\* resolution a date outside 1678..2261 cannot be stored and becomes NaT
ToDatetime(f, ns) ==
    IF f.ok /\ ns /\ (f.y < 1678 \/ f.y > 2261) THEN NoneFecha ELSE f

\* the two lambdas: the parsed value, None for a blank or unparsable cell
CeldaAFecha(c) == IF Strip(AStr(c)) # <<>> THEN _parsear_fecha(AStr(c)) ELSE NoneFecha
CeldaANumero(c) == IF Strip(AStr(c)) # <<>> THEN _parsear_numero(AStr(c)) ELSE NoneNumero

\* the loop body of auto_convertir_tipos for one object column
auto_convertir_tipos(c, ns) ==
    LET m == Muestra(c)
    IN IF m = <<>> THEN [tipo |-> "texto", valores |-> c]
       ELSE IF Mayoria(CuantasFechas(m), Len(m))
            THEN [tipo |-> "fecha",
                  valores |-> [k \in 1..Len(c) |-> ToDatetime(CeldaAFecha(c[k]), ns)]]
       ELSE IF Mayoria(CuantosNumeros(m), Len(m))
            THEN [tipo |-> "numero",
                  valores |-> [k \in 1..Len(c) |-> CeldaANumero(c[k])]]
       ELSE [tipo |-> "texto", valores |-> c]

-----------------------------------------------------------------------------
(* The worksheet formatter: _aplicar_formatos_hoja *)

\* the values a worksheet cell holds: None, a str, a datetime, an int or a
\* float (the exact decimal num, and neg, the sign bit, which tells -0.0)
CeldaNone == [tipo |-> "None", s |-> <<>>, num |-> NoneNumero, neg |-> FALSE, fecha |-> NoneFecha]
CeldaStr(s) == [CeldaNone EXCEPT !.tipo = "str", !.s = s]
CeldaDatetime(f) == [CeldaNone EXCEPT !.tipo = "datetime", !.fecha = f]
CeldaInt(n) == [CeldaNone EXCEPT !.tipo = "int", !.num = Numero(n, 0), !.neg = n < 0]
CeldaFloat(num, neg) == [CeldaNone EXCEPT !.tipo = "float", !.num = num, !.neg = neg]

\* the sign bit of float() of the text _parsear_numero cleans: float("-0") is -0.0
SignoMenos(s) ==
    LET v == Replace(Strip(s), " ", <<>>)
    IN v # <<>> /\ v[1] = "-"

\* num = _parsear_numero(s): cell.value = num when it is not None
PromoverANumero(c, s, num) == IF num.ok THEN CeldaFloat(num, SignoMenos(s)) ELSE c

\* fecha = _parsear_fecha(s): cell.value = fecha when it is not None, else
\* the try of a number
PromoverAFecha(c, s, fecha) ==
    IF fecha.ok THEN CeldaDatetime(fecha) ELSE PromoverANumero(c, s, _parsear_numero(s))

\* s = val.strip(): the tries when s is not empty
PromoverTexto(c, s) == IF s = <<>> THEN c ELSE PromoverAFecha(c, s, _parsear_fecha(s))

\* the try of a date, then of a number, on a str cell that is not blank
PromoverCelda(c) == IF c.tipo # "str" THEN c ELSE PromoverTexto(c, Strip(c.s))

RECURSIVE Pot10(_)
Pot10(k) == IF k = 0 THEN 1 ELSE 10 * Pot10(k - 1)

Abs(n) == IF n < 0 THEN -n ELSE n

RECURSIVE BitLen(_)
BitLen(n) == IF n = 0 THEN 0 ELSE 1 + BitLen(n \div 2)

\* the bits of a double's significand
BitsDoble == 53

\* The binary expansion of r / D (0 <= r < D) by long division, to the bits
\* the significand still lacks (faltan), and then the rounding to nearest,
\* ties to even: 1 when the double is above the exact value, -1 when below,
\* 0 when it is the exact value.  visto: the leading 1 has been produced;
\* ult: the last bit kept.
RECURSIVE Redondeo(_, _, _, _, _)
Redondeo(r, D, faltan, visto, ult) ==
    LET b == (2 * r) \div D
        r2 == (2 * r) % D
    IN IF r = 0 THEN 0
       ELSE IF faltan = 0
            THEN IF b = 0 THEN -1
                 ELSE IF r2 # 0 THEN 1
                 ELSE IF ult = 1 THEN 1 ELSE -1
       ELSE IF ~visto /\ b = 0 THEN Redondeo(r2, D, faltan, FALSE, 0)
       ELSE Redondeo(r2, D, faltan - 1, TRUE, b)

\* the sign of double(a / D) - a / D, for a >= 0
ErrorDeDoble(a, D) ==
    LET I == a \div D
    IN Redondeo(a % D, D, BitsDoble - BitLen(I), I > 0, I % 2)

\* |val| rounded to two decimals as the format does it: the exact value of
\* the double, correctly rounded, ties to even; [ent, cent]
Centesimas(num) ==
    LET a == Abs(num.mant)
        e == num.exp
    IN IF e <= 2
       THEN [ent |-> a \div Pot10(e), cent |-> (a % Pot10(e)) * Pot10(2 - e)]
       ELSE LET p == Pot10(e - 2)
                q == a \div p
                r == a % p
                arriba == IF 2 * r > p THEN TRUE
                          ELSE IF 2 * r < p THEN FALSE
                          ELSE LET err == ErrorDeDoble(a, Pot10(e))
                               IN IF err = 0 THEN q % 2 = 1 ELSE err = 1
                q2 == IF arriba THEN q + 1 ELSE q
            IN [ent |-> q2 \div 100, cent |-> q2 % 100]

DigitoDe(n) == CHOOSE d \in Digitos : ValorDigito(d) = n

\* str(n) for n >= 0
RECURSIVE StrInt(_)
StrInt(n) == IF n < 10 THEN <<DigitoDe(n)>> ELSE StrInt(n \div 10) \o <<DigitoDe(n % 10)>>

\* the "," of the format: a comma before each group of three digits
RECURSIVE Agrupar(_)
Agrupar(d) ==
    IF Len(d) <= 3 THEN d
    ELSE Agrupar(SubSeq(d, 1, Len(d) - 3)) \o <<",">> \o SubSeq(d, Len(d) - 2, Len(d))

\* f"{val:,.2f}"
FormatoMiles2(c) ==
    LET q == Centesimas(c.num)
    IN (IF c.neg THEN <<"-">> ELSE <<>>) \o Agrupar(StrInt(q.ent)) \o <<".">>
         \o <<DigitoDe(q.cent \div 10), DigitoDe(q.cent % 10)>>

\* isinstance(val, float) and val != int(val)
NoEntero(c) == c.tipo = "float" /\ c.num.mant % Pot10(c.num.exp) # 0

AnchoFecha == 12
TopeTexto == 50
Margen == 3
AnchoMaximo == 55

\* the format by the final type of a cell that holds a value v
FormatoDeValor(v) ==
    IF v.tipo = "datetime"
    THEN [valor |-> v, number_format |-> "DD/MM/YYYY", alineacion |-> "center"]
    ELSE IF v.tipo \in {"int", "float"}
         THEN [valor |-> v,
               number_format |-> IF NoEntero(v) THEN "#,##0.00" ELSE "#,##0",
               alineacion |-> "right"]
    ELSE [valor |-> v, number_format |-> "General", alineacion |-> "general"]

\* the cell after the loop body: its value, number_format and alignment
CeldaFormateada(c) ==
    IF c.tipo = "None"
    THEN [valor |-> c, number_format |-> "General", alineacion |-> "general"]
    ELSE FormatoDeValor(PromoverCelda(c))

\* max_ancho after the format of a cell that holds a value v
AnchoTrasValor(max_ancho, v) ==
    IF v.tipo = "datetime" THEN MaxDe({max_ancho, AnchoFecha})
    ELSE IF v.tipo \in {"int", "float"}
         THEN MaxDe({max_ancho, Len(FormatoMiles2(v))})
    ELSE MaxDe({max_ancho, MinDe({Len(v.s), TopeTexto})})

\* max_ancho after the loop body on one cell
AnchoTrasCelda(max_ancho, c) ==
    IF c.tipo = "None" THEN max_ancho ELSE AnchoTrasValor(max_ancho, PromoverCelda(c))

\* the loop over the rows 2..max_row of one column, from the k-th data cell on
RECURSIVE BucleFilas(_, _, _)
BucleFilas(celdas, k, max_ancho) ==
    IF k > Len(celdas) THEN max_ancho
    ELSE BucleFilas(celdas, k + 1, AnchoTrasCelda(max_ancho, celdas[k]))

\* str(ws.cell(1, col_idx).value or "") of a header, a str or None
CabeceraStr(h) == IF h.nulo THEN <<>> ELSE h.s

\* range(1, ws.max_column + 1): a sheet with no cell has max_column 1
ColumnasDeHoja(hoja) ==
    IF hoja = <<>> THEN << [cabecera |-> Nulo, celdas |-> <<>>] >> ELSE hoja

\* the width without the cap
AnchoFinal_sinTope(max_ancho) == max_ancho + Margen

\* min(max_ancho + 3, 55)
AnchoFinal(max_ancho) == MinDe({max_ancho + Margen, AnchoMaximo})

\* _aplicar_formatos_hoja: for each column the header style, the cells after
\* promotion and formatting, and the width set in column_dimensions
_aplicar_formatos_hoja(hoja) ==
    LET cols == ColumnasDeHoja(hoja)
    IN [j \in 1..Len(cols) |->
          [cabecera |-> cols[j].cabecera,
           negrita |-> TRUE,
           alineacion |-> "center",
           celdas |-> [k \in 1..Len(cols[j].celdas) |-> CeldaFormateada(cols[j].celdas[k])],
           width |-> AnchoFinal(BucleFilas(cols[j].celdas, 1,
                                           Len(CabeceraStr(cols[j].cabecera))))]]

-----------------------------------------------------------------------------
(* The extraction backends, as functions of what the library does on the
   document: extraer_tablas_tabula, extraer_tablas_pdfplumber, extraer_texto *)

\* pd.DataFrame(): no columns and no rows
SinFrame == [columnas |-> <<>>, filas |-> <<>>]

\* a backend's result: the exception it lets out ("" for none), its value, and
\* whether the library raised inside it
Resultado(e, v, f) == [exc |-> e, val |-> v, fallo |-> f]

\* extraer_tablas_tabula.  o is what tabula.read_pdf does: it raises (o.exc) or
\* returns tables, each given by its number of rows.  The empty tables are
\* filtered out; an exception is caught and gives [].
extraer_tablas_tabula(o) ==
    IF o.exc THEN Resultado("", <<>>, TRUE)
    ELSE Resultado("", SelectSeq(o.tablas, LAMBDA t : t > 0), FALSE)

\* the DataFrame of one raw table of extract_tables(), by its number of rows:
\* raw.filas rows with the header, raw.nulas data rows wholly None.  No frame
\* for an empty table, a header alone, or data that dropna() empties.
TablasDeRaw(raw) ==
    IF raw.filas >= 2 /\ raw.filas - 1 - raw.nulas > 0
    THEN <<raw.filas - 1 - raw.nulas>>
    ELSE <<>>

RECURSIVE TablasDeRaws(_)
TablasDeRaws(raws) ==
    IF raws = <<>> THEN <<>>
    ELSE TablasDeRaw(Head(raws)) \o TablasDeRaws(Tail(raws))

\* the loop over the selected pages from the k-th on: the tables appended so
\* far are kept when a page raises
RECURSIVE BuclePaginasTablas(_, _, _, _)
BuclePaginasTablas(doc, paginas_idx, k, acc) ==
    IF k > Len(paginas_idx) THEN Resultado("", acc, FALSE)
    ELSE LET pg == doc.paginas[paginas_idx[k] + 1]
         IN IF pg.exc THEN Resultado("", acc, TRUE)
            ELSE BuclePaginasTablas(doc, paginas_idx, k + 1,
                                    acc \o TablasDeRaws(pg.raws))

\* extraer_tablas_pdfplumber.  doc is what pdfplumber does: open() raises
\* (~doc.abre) or gives the pages, each raising or giving its raw tables.
\* Every exception, the resolver's ValueError included, is caught.
extraer_tablas_pdfplumber(doc, a) ==
    IF ~doc.abre THEN Resultado("", <<>>, TRUE)
    ELSE LET sel == parse_rango_paginas(a.paginas, Len(doc.paginas))
         IN IF sel.exc # "" THEN Resultado("", <<>>, TRUE)
            ELSE BuclePaginasTablas(doc, sel.val, 1, <<>>)

\* extract_text() or ""
TextoDePagina(pg) == IF pg.texto.nulo THEN <<>> ELSE pg.texto.s

Fila(p, n, celdas) == [Pagina |-> p, Linea |-> n, celdas |-> celdas]

\* the records of one page: one for the page (Linea 0: no such column), or one
\* for each line, the blank lines skipped under --sin-vacias
FilasDePagina(i, texto, a) ==
    IF a.modo_texto = "pagina" THEN << Fila(i + 1, 0, <<Texto(texto)>>) >>
    ELSE LET lineas == Split(texto, "\n")
             guardadas == {n \in 1..Len(lineas) :
                             ~(a.sin_vacias /\ Strip(lineas[n]) = <<>>)}
             orden == Sorted(guardadas)
         IN [j \in 1..Len(orden) |-> Fila(i + 1, orden[j], <<Texto(lineas[orden[j]])>>)]

\* the loop of extraer_texto over the selected pages from the k-th on
RECURSIVE BuclePaginasTexto(_, _, _, _, _)
BuclePaginasTexto(doc, paginas_idx, k, filas, a) ==
    IF k > Len(paginas_idx) THEN Resultado("", filas, FALSE)
    ELSE LET pg == doc.paginas[paginas_idx[k] + 1]
         IN IF pg.exc THEN Resultado("Exception", <<>>, TRUE)
            ELSE BuclePaginasTexto(doc, paginas_idx, k + 1,
                     filas \o FilasDePagina(paginas_idx[k], TextoDePagina(pg), a), a)

NombresCol == <<"Col_1", "Col_2", "Col_3", "Col_4">>

\* args.separador.replace("\\t", "\t")
Separador(a) == IF a.separador = <<"\\", "t">> THEN <<"\t">> ELSE a.separador

\* df["Texto"].str.split(sep, expand=True): the pieces of each text, padded
\* with None to the widest row
Extras(filas, c) ==
    LET piezas == [k \in 1..Len(filas) |-> Split(filas[k].celdas[1].s, c)]
        ancho == MaxDe({Len(piezas[k]) : k \in 1..Len(filas)})
    IN [k \in 1..Len(filas) |->
          [filas[k] EXCEPT !.celdas =
              [j \in 1..ancho |-> IF j <= Len(piezas[k]) THEN Texto(piezas[k][j])
                                  ELSE Nulo]]]

ColumnasBase(a) ==
    IF a.modo_texto = "pagina" THEN <<"Pagina">> ELSE <<"Pagina", "Linea">>

\* pd.DataFrame(filas), then the split into positional columns
FrameDe(filas, a) ==
    IF filas = <<>> THEN SinFrame
    ELSE IF Separador(a) # <<>>
         THEN LET ex == Extras(filas, Separador(a)[1])
              IN [columnas |-> ColumnasBase(a) \o SubSeq(NombresCol, 1, Len(ex[1].celdas)),
                  filas |-> ex]
         ELSE [columnas |-> ColumnasBase(a) \o <<"Texto">>, filas |-> filas]

\* extraer_texto.  doc is what pdfplumber does: open() raises or gives the
\* pages, each raising or giving its text (None, "" or a text).  Nothing is
\* caught: the library's exception and the resolver's ValueError leave it.
extraer_texto(doc, a) ==
    IF ~doc.abre THEN Resultado("Exception", SinFrame, TRUE)
    ELSE LET sel == parse_rango_paginas(a.paginas, Len(doc.paginas))
         IN IF sel.exc # "" THEN Resultado("ValueError", SinFrame, FALSE)
            ELSE LET r == BuclePaginasTexto(doc, sel.val, 1, <<>>, a)
                 IN IF r.exc # "" THEN Resultado(r.exc, SinFrame, TRUE)
                    ELSE Resultado("", FrameDe(r.val, a), FALSE)

\* the texts extraer_texto reads from the selected pages it reaches
TextosLeidos(doc, a) ==
    IF ~doc.abre THEN <<>>
    ELSE LET sel == parse_rango_paginas(a.paginas, Len(doc.paginas))
         IN IF sel.exc # "" THEN <<>>
            ELSE [k \in 1..Len(sel.val) |-> doc.paginas[sel.val[k] + 1]]

\* df.empty
FrameVacio(f) == f.filas = <<>>

-----------------------------------------------------------------------------
(* Each component is driven by its own specification; the variables of the
   other components are then at rest *)

Pendiente == [exc |-> "pendiente", val |-> <<>>]

FechaPendiente == [hecho |-> FALSE, fecha |-> NoneFecha, probados |-> 0]

FechaEnReposo ==
    /\ val_fecha = <<>>
    /\ res_fecha = FechaPendiente

NumPendiente == [hecho |-> FALSE, num |-> NoneNumero, forma |-> ""]

NumEnReposo ==
    /\ val_num = <<>>
    /\ res_num = NumPendiente

ColPendiente == [hecho |-> FALSE, tipo |-> "", valores |-> <<>>]

ColEnReposo ==
    /\ col = <<>>
    /\ res_col = ColPendiente

MainEnReposo ==
    /\ args = [modo |-> "auto", batch |-> FALSE, paginas |-> StrAll,
               modo_texto |-> "linea", sin_vacias |-> FALSE, separador |-> <<>>]
    /\ entrada = [tipo |-> "nada", pdfs |-> {}]
    /\ estado = "reposo"
    /\ pdfs = <<>>
    /\ idx = 0
    /\ errores = <<>>
    /\ pc = "reposo"
    /\ tablas = <<>>
    /\ df = SinFrame
    /\ exc = ""
    /\ mensaje = ""
    /\ escritos = {}
    /\ llamadas = <<>>
    /\ textos = <<>>
    /\ procesados = <<>>
    /\ lanzaron = <<>>

PagEnReposo ==
    /\ paginas_str = <<>>
    /\ total_paginas = 0
    /\ res_paginas = Pendiente

HojaPendiente == [hecho |-> FALSE, columnas |-> <<>>]

HojaEnReposo ==
    /\ ws = <<>>
    /\ res_ws = HojaPendiente

-----------------------------------------------------------------------------
(* The selectors the resolver is driven with *)

CharsSel == {"0", "1", "3", "-", ",", " "}

FormasAll == { <<"a", "l", "l">>, <<"A", "L", "L">>, <<" ", "A", "l", "l", " ">>,
               <<"\t", "a", "L", "l", "\n">>, <<"a", "l">>, <<"a", " ", "l", "l">> }

Selectores == (UNION {[1..n -> CharsSel] : n \in 0..MaxLenSel}) \cup FormasAll

InitPag ==
    /\ paginas_str \in Selectores
    /\ total_paginas \in 0..MaxPaginas
    /\ res_paginas = Pendiente
    /\ FechaEnReposo
    /\ NumEnReposo
    /\ ColEnReposo
    /\ MainEnReposo
    /\ HojaEnReposo

ResolverPaginas ==
    /\ res_paginas = Pendiente
    /\ res_paginas' = parse_rango_paginas(paginas_str, total_paginas)
    /\ UNCHANGED <<paginas_str, total_paginas, varsFecha, varsNum, varsCol, varsMain, varsHoja>>

NextPag == ResolverPaginas

SpecPaginas == InitPag /\ [][NextPag]_vars

-----------------------------------------------------------------------------
(* The strings the date detector is driven with *)

CamposFecha == { <<"1">>, <<"0", "3">>, <<"0", "4">>, <<"1", "2">>, <<"1", "3">>,
                 <<"2", "5">>, <<"3", "1">>, <<"0", "0">>, <<"2", "9">>, <<"0", "2">>,
                 <<"2", "0", "2", "4">> }

AniosFecha == { <<"2", "0", "2", "4">>, <<"2", "4">>, <<"2", "0", "2", "3">>,
                <<"2", "0", "2">>, <<"5">>, <<"0", "0", "0", "0">>, <<"6", "8">>,
                <<"6", "9">>, <<"0", "5">> }

SepCadenas == {"/", "-", "."}

Relleno == {<<>>, <<" ">>}

CadenasFecha ==
    { r \o a \o <<s1>> \o b \o <<s2>> \o c \o r :
        a \in CamposFecha, b \in CamposFecha, c \in AniosFecha,
        s1 \in SepCadenas, s2 \in SepCadenas, r \in Relleno }

InitFecha ==
    /\ val_fecha \in CadenasFecha
    /\ res_fecha = FechaPendiente
    /\ PagEnReposo
    /\ NumEnReposo
    /\ ColEnReposo
    /\ MainEnReposo
    /\ HojaEnReposo

ParsearFecha ==
    /\ ~res_fecha.hecho
    /\ res_fecha' = [hecho |-> TRUE,
                     fecha |-> _parsear_fecha(val_fecha),
                     probados |-> ParsearFechaTraza(val_fecha).probados]
    /\ UNCHANGED <<val_fecha, varsPag, varsNum, varsCol, varsMain, varsHoja>>

NextFecha == ParsearFecha

SpecFecha == InitFecha /\ [][NextFecha]_vars

-----------------------------------------------------------------------------
(* The strings the number detector is driven with *)

CharsNum == {"0", "1", "5", ",", ".", "-", " ", "a"}

Ejemplos == { <<"1", ",", "2", "3", "4", ".", "5", "6">>,
              <<"1", ".", "2", "3", "4", ",", "5", "6">>,
              <<"1", "4", "0", ",", "0", "0", "0">>,
              <<"4", "2", ".", "5">>,
              <<"1", ",", "2", "3", "4", ",", "5", "6", "7">>,
              <<" ", "1", " ", "0", "0", "0", ".", "5", " ">>,
              <<"1", "2", "a">>, <<"1", "e", "5">>, <<"i", "n", "f">> }

CadenasNumero == (UNION {[1..n -> CharsNum] : n \in 0..MaxLenNum}) \cup Ejemplos

InitNum ==
    /\ val_num \in CadenasNumero
    /\ res_num = NumPendiente
    /\ PagEnReposo
    /\ FechaEnReposo
    /\ ColEnReposo
    /\ MainEnReposo
    /\ HojaEnReposo

ParsearNumero ==
    /\ ~res_num.hecho
    /\ res_num' = [hecho |-> TRUE,
                   num |-> _parsear_numero(val_num),
                   forma |-> ParsearNumeroTraza(val_num).forma]
    /\ UNCHANGED <<val_num, varsPag, varsFecha, varsCol, varsMain, varsHoja>>

NextNum == ParsearNumero

SpecNumero == InitNum /\ [][NextNum]_vars

-----------------------------------------------------------------------------
(* The columns the type inference is driven with *)

CeldaFecha == Texto(<<"0", "3", "/", "0", "4", "/", "2", "0", "2", "4">>)
CeldaFechaAntigua == Texto(<<"1", "/", "2", "/", "1", "5", "0", "0">>)
CeldaNumero == Texto(<<"1", ",", "2", "3", "4", ".", "5", "6">>)
CeldaTexto == Texto(<<"a", "b", "c">>)
CeldaBlanca == Texto(<<" ">>)

Celdas == {CeldaFecha, CeldaFechaAntigua, CeldaNumero, CeldaTexto, CeldaBlanca, Nulo}

Columnas ==
    (UNION {[1..n -> Celdas] : n \in 0..MaxFilas})
        \cup [1..FilasLargas -> {CeldaFecha, CeldaTexto}]

InitCol ==
    /\ col \in Columnas
    /\ res_col = ColPendiente
    /\ PagEnReposo
    /\ FechaEnReposo
    /\ NumEnReposo
    /\ MainEnReposo
    /\ HojaEnReposo

\* auto_convertir_tipos on the column; ns: whether this pandas stores
\* datetimes with nanosecond resolution
ConvertirColumna ==
    /\ ~res_col.hecho
    /\ \E ns \in BOOLEAN :
         LET r == auto_convertir_tipos(col, ns)
         IN res_col' = [hecho |-> TRUE, tipo |-> r.tipo, valores |-> r.valores]
    /\ UNCHANGED <<col, varsPag, varsFecha, varsNum, varsMain, varsHoja>>

NextCol == ConvertirColumna

SpecColumna == InitCol /\ [][NextCol]_vars

-----------------------------------------------------------------------------
(* The worksheets the formatter is driven with *)

Letras(n) == [k \in 1..n |-> "x"]

CeldasHoja ==
    { CeldaNone,
      CeldaStr(<<>>),
      CeldaStr(<<" ", " ", " ">>),
      CeldaStr(<<"a", "b", "c">>),
      CeldaStr(Letras(LargoTexto)),
      CeldaStr(<<"0", "3", "/", "0", "4", "/", "2", "0", "2", "4">>),
      CeldaStr(<<" ", "1", ",", "2", "3", "4", ".", "5", "6", " ">>),
      CeldaStr(<<"1", "2", "3", "4", "5", "6", "7">>),
      CeldaDatetime(Fecha(2024, 4, 3)),
      CeldaInt(7),
      CeldaFloat(Numero(12345, 1), FALSE) }

\* numbers whose rendering rounds, carries, groups or keeps the sign of zero
CeldasRedondeo ==
    { CeldaStr(<<"9", "9", "9", ".", "9", "9", "5">>),
      CeldaStr(<<"9", ".", "9", "9", "5">>),
      CeldaStr(<<"0", ".", "1", "2", "5">>),
      CeldaStr(<<"0", ".", "3", "7", "5">>),
      CeldaStr(<<"-", "0", ".", "0", "0", "1">>),
      CeldaStr(<<"-", "0">>),
      CeldaStr(<<"1", "4", "0", ",", "0", "0", "0">>),
      CeldaStr(<<"1", ".", "2", "3", "4", ",", "5">>),
      CeldaStr(<<"3", "1", "/", "0", "2", "/", "2", "0", "2", "4">>),
      CeldaInt(-1234),
      CeldaFloat(Numero(0, 0), TRUE) }

Cabeceras == {Nulo, Texto(<<>>), Texto(<<"T", "e", "x", "t", "o">>), Texto(Letras(LargoCabecera))}

Columna(h, cs) == [cabecera |-> h, celdas |-> cs]

Hojas ==
    {<<>>}
      \cup {<<Columna(h, cs)>> :
              h \in Cabeceras, cs \in UNION {[1..n -> CeldasHoja] : n \in 0..MaxFilasHoja}}
      \cup {<<Columna(h, <<c>>)>> : h \in Cabeceras, c \in CeldasRedondeo}
      \cup {<<Columna(h1, <<c1>>), Columna(h2, <<c2>>)>> :
              h1 \in Cabeceras, h2 \in Cabeceras,
              c1 \in CeldasHoja, c2 \in CeldasRedondeo}

InitHoja ==
    /\ ws \in Hojas
    /\ res_ws = HojaPendiente
    /\ PagEnReposo
    /\ FechaEnReposo
    /\ NumEnReposo
    /\ ColEnReposo
    /\ MainEnReposo

\* _aplicar_formatos_hoja(ws)
AplicarFormatos ==
    /\ ~res_ws.hecho
    /\ res_ws' = [hecho |-> TRUE, columnas |-> _aplicar_formatos_hoja(ws)]
    /\ UNCHANGED <<ws, varsPag, varsFecha, varsNum, varsCol, varsMain>>

NextHoja == AplicarFormatos

SpecHoja == InitHoja /\ [][NextHoja]_vars

-----------------------------------------------------------------------------
(* What the environment gives: the command line, the input path, and what the
   libraries do on a document each time a backend is called *)

Modos == {"auto", "tablas", "texto"}

PaginasArg == {StrAll, <<"2">>, <<"-", "1">>}

Argumentos ==
    [modo : Modos, batch : BOOLEAN, paginas : PaginasArg,
     modo_texto : {"linea", "pagina"}, sin_vacias : BOOLEAN,
     separador : {<<>>, <<";">>}]

\* the input path: nothing, a file (named 1), or a directory with .pdf files
Entradas ==
    {[tipo |-> "nada", pdfs |-> {}], [tipo |-> "file", pdfs |-> {1}]}
        \cup {[tipo |-> "dir", pdfs |-> S] : S \in SUBSET (1..MaxArchivos)}

ResultadosTabula ==
    {[exc |-> TRUE, tablas |-> <<>>], [exc |-> FALSE, tablas |-> <<>>],
     [exc |-> FALSE, tablas |-> <<0>>], [exc |-> FALSE, tablas |-> <<2>>],
     [exc |-> FALSE, tablas |-> <<0, 3>>]}

PaginasDeTablas ==
    {[exc |-> TRUE, raws |-> <<>>], [exc |-> FALSE, raws |-> <<>>],
     [exc |-> FALSE, raws |-> <<[filas |-> 1, nulas |-> 0]>>],
     [exc |-> FALSE, raws |-> <<[filas |-> 2, nulas |-> 1]>>],
     [exc |-> FALSE, raws |-> <<[filas |-> 0, nulas |-> 0], [filas |-> 3, nulas |-> 1]>>]}

TextoDeEjemplo == <<" ", "\n", "a", ";", "b">>

PaginasDeTexto ==
    {[exc |-> TRUE, texto |-> Nulo], [exc |-> FALSE, texto |-> Nulo],
     [exc |-> FALSE, texto |-> Texto(<<>>)], [exc |-> FALSE, texto |-> Texto(TextoDeEjemplo)]}

\* a document as pdfplumber gives it: open() raises, or up to MaxPaginas pages
Documentos(P) ==
    {[abre |-> FALSE, paginas |-> <<>>]}
        \cup {[abre |-> TRUE, paginas |-> ps] :
                ps \in UNION {[1..n -> P] : n \in 0..MaxPaginas}}

-----------------------------------------------------------------------------
(* main and procesar_pdf *)

Llamada(fn, n, fallo) == [fn |-> fn, n |-> n, fallo |-> fallo]

Init ==
    /\ args \in Argumentos
    /\ entrada \in Entradas
    /\ estado = "inicio"
    /\ pdfs = <<>>
    /\ idx = 0
    /\ errores = <<>>
    /\ pc = "reposo"
    /\ tablas = <<>>
    /\ df = SinFrame
    /\ exc = ""
    /\ mensaje = ""
    /\ escritos = {}
    /\ llamadas = <<>>
    /\ textos = <<>>
    /\ procesados = <<>>
    /\ lanzaron = <<>>
    /\ PagEnReposo
    /\ FechaEnReposo
    /\ NumEnReposo
    /\ ColEnReposo
    /\ HojaEnReposo

varsOtros == <<varsPag, varsFecha, varsNum, varsCol, varsHoja>>

\* main up to the first call of procesar_pdf: the checks of the input path,
\* the sorted list of files, the empty list of errors
MainInicio ==
    /\ estado = "inicio"
    /\ IF args.batch
       THEN IF entrada.tipo # "dir" \/ entrada.pdfs = {}
            THEN estado' = "sys_exit" /\ UNCHANGED <<pdfs, idx>>
            ELSE estado' = "batch" /\ pdfs' = Sorted(entrada.pdfs) /\ idx' = 1
       ELSE IF entrada.tipo # "file"
            THEN estado' = "sys_exit" /\ UNCHANGED <<pdfs, idx>>
            ELSE estado' = "individual" /\ pdfs' = <<1>> /\ idx' = 1
    /\ errores' = <<>>
    /\ UNCHANGED <<args, entrada, pc, tablas, df, exc, mensaje, escritos, llamadas,
                   textos, procesados, lanzaron, varsOtros>>

\* the call procesar_pdf(pdf_file, salida, args) and its first lines
LlamarProcesarPdf ==
    /\ estado \in {"batch", "individual"}
    /\ pc = "reposo"
    /\ idx <= Len(pdfs)
    /\ pc' = IF args.modo \in {"auto", "tablas"} THEN "tabula" ELSE "texto"
    /\ tablas' = <<>>
    /\ df' = SinFrame
    /\ mensaje' = ""
    /\ llamadas' = <<>>
    /\ textos' = <<>>
    /\ procesados' = Append(procesados, pdfs[idx])
    /\ UNCHANGED <<args, entrada, estado, pdfs, idx, errores, exc, escritos,
                   lanzaron, varsOtros>>

\* after extraer_tablas_tabula: the fallback when it found nothing
TrasTabula(t) == IF t # <<>> THEN "guardar_tablas" ELSE "pdfplumber"

\* tablas = extraer_tablas_tabula(pdf_path, args)
ExtraerTablasTabula ==
    /\ pc = "tabula"
    /\ \E o \in ResultadosTabula :
         LET r == extraer_tablas_tabula(o)
         IN /\ tablas' = r.val
            /\ llamadas' = Append(llamadas, Llamada("tabula", Len(r.val), r.fallo))
            /\ pc' = TrasTabula(r.val)
    /\ UNCHANGED <<args, entrada, estado, pdfs, idx, errores, df, exc, mensaje,
                   escritos, textos, procesados, lanzaron, varsOtros>>

\* TrasPdfplumber without the return of the mode tablas
TrasPdfplumber_sinRetorno(t, modo) ==
    IF t # <<>> THEN "guardar_tablas" ELSE "texto"

\* after extraer_tablas_pdfplumber: write the tables, or return in the mode
\* tablas, or fall to the text
TrasPdfplumber(t, modo) ==
    IF t # <<>> THEN "guardar_tablas"
    ELSE IF modo = "tablas" THEN "retorno" ELSE "texto"

\* tablas = extraer_tablas_pdfplumber(pdf_path, args), and the tests after it
ExtraerTablasPdfplumber ==
    /\ pc = "pdfplumber"
    /\ \E doc \in Documentos(PaginasDeTablas) :
         LET r == extraer_tablas_pdfplumber(doc, args)
         IN /\ tablas' = r.val
            /\ llamadas' = Append(llamadas, Llamada("pdfplumber", Len(r.val), r.fallo))
            /\ pc' = TrasPdfplumber(r.val, args.modo)
            /\ mensaje' = IF pc' = "retorno" THEN "Sin tablas encontradas" ELSE mensaje
    /\ UNCHANGED <<args, entrada, estado, pdfs, idx, errores, df, exc, escritos,
                   textos, procesados, lanzaron, varsOtros>>

\* guardar_tablas_excel(tablas, ruta_salida, ...): the file is written, or the
\* writer raises
GuardarTablasExcel ==
    /\ pc = "guardar_tablas"
    /\ llamadas' = Append(llamadas, Llamada("guardar_tablas", Len(tablas), FALSE))
    /\ \/ /\ escritos' = escritos \cup {pdfs[idx]}
          /\ mensaje' = "OK tablas"
          /\ pc' = "retorno"
          /\ UNCHANGED <<exc, lanzaron>>
       \/ /\ exc' = "guardar_tablas_excel"
          /\ lanzaron' = Append(lanzaron, pdfs[idx])
          /\ pc' = "excepcion"
          /\ UNCHANGED <<escritos, mensaje>>
    /\ UNCHANGED <<args, entrada, estado, pdfs, idx, errores, tablas, df, textos,
                   procesados, varsOtros>>

\* df = extraer_texto(pdf_path, args), and the test of df.empty
ExtraerTexto ==
    /\ pc = "texto"
    /\ \E doc \in Documentos(PaginasDeTexto) :
         LET r == extraer_texto(doc, args)
         IN /\ llamadas' = Append(llamadas, Llamada("texto", Len(r.val.filas), r.fallo))
            /\ textos' = TextosLeidos(doc, args)
            /\ df' = r.val
            /\ IF r.exc # ""
               THEN /\ exc' = "extraer_texto"
                    /\ lanzaron' = Append(lanzaron, pdfs[idx])
                    /\ pc' = "excepcion"
                    /\ UNCHANGED mensaje
               ELSE /\ UNCHANGED <<exc, lanzaron>>
                    /\ IF FrameVacio(r.val)
                       THEN mensaje' = "Sin texto extraido" /\ pc' = "retorno"
                       ELSE pc' = "guardar_texto" /\ UNCHANGED mensaje
    /\ UNCHANGED <<args, entrada, estado, pdfs, idx, errores, tablas, escritos,
                   procesados, varsOtros>>

\* guardar_texto_excel(df, ruta_salida)
GuardarTextoExcel ==
    /\ pc = "guardar_texto"
    /\ llamadas' = Append(llamadas, Llamada("guardar_texto", Len(df.filas), FALSE))
    /\ \/ /\ escritos' = escritos \cup {pdfs[idx]}
          /\ mensaje' = "OK texto"
          /\ pc' = "retorno"
          /\ UNCHANGED <<exc, lanzaron>>
       \/ /\ exc' = "guardar_texto_excel"
          /\ lanzaron' = Append(lanzaron, pdfs[idx])
          /\ pc' = "excepcion"
          /\ UNCHANGED <<escritos, mensaje>>
    /\ UNCHANGED <<args, entrada, estado, pdfs, idx, errores, tablas, df, textos,
                   procesados, varsOtros>>

\* procesar_pdf returns: the next file of the batch, or the end of main
Retornar ==
    /\ pc = "retorno"
    /\ pc' = "reposo"
    /\ IF estado = "batch"
       THEN idx' = idx + 1 /\ UNCHANGED estado
       ELSE estado' = "listo" /\ UNCHANGED idx
    /\ UNCHANGED <<args, entrada, pdfs, errores, tablas, df, exc, mensaje, escritos,
                   llamadas, textos, procesados, lanzaron, varsOtros>>

\* the exception handler without the append: the batch is abandoned
ManejarExcepcion_abandona ==
    /\ pc = "excepcion"
    /\ pc' = "reposo"
    /\ estado' = "traceback"
    /\ UNCHANGED <<args, entrada, pdfs, idx, errores, tablas, df, exc, mensaje,
                   escritos, llamadas, textos, procesados, lanzaron, varsOtros>>

\* an exception leaves procesar_pdf: in a batch the except clause records the
\* file's name and the loop goes on; otherwise it leaves main uncaught
ManejarExcepcion ==
    /\ pc = "excepcion"
    /\ pc' = "reposo"
    /\ IF estado = "batch"
       THEN /\ errores' = Append(errores, pdfs[idx])
            /\ idx' = idx + 1
            /\ exc' = ""
            /\ UNCHANGED estado
       ELSE /\ estado' = "traceback"
            /\ UNCHANGED <<errores, idx, exc>>
    /\ UNCHANGED <<args, entrada, pdfs, tablas, df, mensaje, escritos, llamadas,
                   textos, procesados, lanzaron, varsOtros>>

\* after the loop: the count of errors, "Batch completado", the final message
FinBatch ==
    /\ estado = "batch"
    /\ pc = "reposo"
    /\ idx > Len(pdfs)
    /\ estado' = "listo"
    /\ UNCHANGED <<args, entrada, pdfs, idx, errores, pc, tablas, df, exc, mensaje,
                   escritos, llamadas, textos, procesados, lanzaron, varsOtros>>

Next ==
    \/ MainInicio
    \/ LlamarProcesarPdf
    \/ ExtraerTablasTabula
    \/ ExtraerTablasPdfplumber
    \/ GuardarTablasExcel
    \/ ExtraerTexto
    \/ GuardarTextoExcel
    \/ Retornar
    \/ ManejarExcepcion
    \/ FinBatch

Spec == Init /\ [][Next]_vars

-----------------------------------------------------------------------------
(* Properties of _parsear_fecha *)

\* the digit fields of a date-shaped string: the text before the first
\* separator, between the two separators and after the second
CamposDeFecha(s) ==
    LET cortes == Sorted({k \in 1..Len(s) : s[k] \in SepFecha})
    IN <<SubSeq(s, 1, cortes[1] - 1),
         SubSeq(s, cortes[1] + 1, cortes[2] - 1),
         SubSeq(s, cortes[2] + 1, Len(s))>>

SeparadoresDeFecha(s) ==
    LET cortes == Sorted({k \in 1..Len(s) : s[k] \in SepFecha})
    IN <<s[cortes[1]], s[cortes[2]]>>

\* the year a 2- or 4-digit year field denotes
AnioDelCampo(c) ==
    IF Len(c) = 4 THEN ValorDecimal(c) ELSE AnioDeDosDigitos(ValorDecimal(c))

\* C7 (shape gate and template order): a string whose trimmed form does not
\* match the shape pattern gives no match with no template tried; one that
\* matches gives the date of the first template, in list order, that parses it
\* (every earlier template was tried and failed), or no match after all
\* templates failed.
C7_PrimerFormato ==
    res_fecha.hecho =>
        LET s == Strip(val_fecha)
            F == _FORMATOS_FECHA
        IN IF ~PatronFecha(s)
           THEN res_fecha.fecha = NoneFecha /\ res_fecha.probados = 0
           ELSE \/ \E k \in 1..Len(F) :
                     /\ strptime(s, F[k]).exc = ""
                     /\ \A j \in 1..(k - 1) : strptime(s, F[j]).exc # ""
                     /\ res_fecha.fecha = strptime(s, F[k]).val
                     /\ res_fecha.probados = k
                \/ /\ \A k \in 1..Len(F) : strptime(s, F[k]).exc # ""
                   /\ res_fecha.fecha = NoneFecha
                   /\ res_fecha.probados = Len(F)

\* C7 (day first): for a shape-matching string with one separator used twice
\* and a 2- or 4-digit year, when the day-first reading (first field the day,
\* second the month) is a valid date the result is that date; the month-first
\* reading is the result only when the day-first reading is not a valid date.
C7_DiaPrimero ==
    (res_fecha.hecho /\ PatronFecha(Strip(val_fecha))) =>
        LET s == Strip(val_fecha)
            c == CamposDeFecha(s)
            a == ValorDecimal(c[1])
            b == ValorDecimal(c[2])
            y == AnioDelCampo(c[3])
        IN (SeparadoresDeFecha(s)[1] = SeparadoresDeFecha(s)[2] /\ Len(c[3]) \in {2, 4}) =>
             /\ FechaValida(y, b, a) => res_fecha.fecha = Fecha(y, b, a)
             /\ (a # b /\ res_fecha.fecha = Fecha(y, a, b)) => ~FechaValida(y, b, a)

\* C7: the shape gate, the first-template rule and the day-first consequence
C7_DetectorDeFechas == C7_PrimerFormato /\ C7_DiaPrimero

\* "03/04/2024" is read as 3 April 2024 by the first template
C7_Witness ==
    /\ res_fecha.hecho
    /\ val_fecha = <<"0", "3", "/", "0", "4", "/", "2", "0", "2", "4">>
    /\ res_fecha.fecha = Fecha(2024, 4, 3)
    /\ res_fecha.probados = 1

\* C10: every template of the list is reachable: a string that an ISO template
\* (%Y-%m-%d or %Y/%m/%d) parses as a valid date is recognized by
\* _parsear_fecha as that date.
C10_IsoReconocido ==
    res_fecha.hecho =>
        \A k \in {9, 10} :
            LET r == strptime(Strip(val_fecha), _FORMATOS_FECHA[k])
            IN r.exc = "" => res_fecha.fecha = r.val

-----------------------------------------------------------------------------
(* Properties of _parsear_numero *)

\* whether the detector's result is the decimal mant / 10^exp
EsElNumero(n, mant, exp) == n.ok /\ n.mant * 10^exp = mant * 10^n.exp

TieneLetra(s) == \E k \in 1..Len(s) : s[k] \in {"a", "e", "i", "n", "f"}

\* C8: "1,234.56" gives 1234.56, "1.234,56" gives 1234.56, "140,000" gives
\* 140000 and "42.5" gives 42.5; a string that matches none of the four shapes,
\* the empty string and every string containing a letter are rejected with no
\* value.
C8_FormasNumericas ==
    res_num.hecho =>
        /\ val_num = <<"1", ",", "2", "3", "4", ".", "5", "6">>
             => EsElNumero(res_num.num, 123456, 2)
        /\ val_num = <<"1", ".", "2", "3", "4", ",", "5", "6">>
             => EsElNumero(res_num.num, 123456, 2)
        /\ val_num = <<"1", "4", "0", ",", "0", "0", "0">>
             => EsElNumero(res_num.num, 140000, 0)
        /\ val_num = <<"4", "2", ".", "5">>
             => EsElNumero(res_num.num, 425, 1)
        /\ res_num.forma \in {"vacia", "ninguna"} => res_num.num = NoneNumero
        /\ (Strip(val_num) = <<>> \/ TieneLetra(val_num)) => res_num.num = NoneNumero

-----------------------------------------------------------------------------
(* Properties of auto_convertir_tipos *)

\* the non-blank values of the column
NoBlancas(c) == {k \in 1..Len(c) : ~c[k].nulo /\ Strip(c[k].s) # <<>>}

FechasEn(c) == {k \in NoBlancas(c) : _parsear_fecha(c[k].s).ok}
NumerosEn(c) == {k \in NoBlancas(c) : _parsear_numero(c[k].s).ok}

\* at least 60% of the n values, and at least one
AlMenos60(cuenta, n) == 10 * cuenta >= 6 * n /\ cuenta >= 1

\* C6: for a column with a non-empty sample of non-blank values: it becomes a
\* date column exactly when at least 60% of the non-blank values parse as dates
\* and at least one does; otherwise a number column exactly when at least 60%
\* parse as numbers and at least one does; otherwise every value is left
\* unchanged.  In a promoted column every value that fails to parse (blank and
\* missing values included) is a missing value.
C6_PromocionDeColumna ==
    (res_col.hecho /\ NoBlancas(col) # {}) =>
        LET n == Cardinality(NoBlancas(col))
            fechas == FechasEn(col)
            numeros == NumerosEn(col)
            esFecha == AlMenos60(Cardinality(fechas), n)
            esNumero == ~esFecha /\ AlMenos60(Cardinality(numeros), n)
        IN /\ res_col.tipo = "fecha" <=> esFecha
           /\ res_col.tipo = "numero" <=> esNumero
           /\ res_col.tipo = "texto" <=> (~esFecha /\ ~esNumero)
           /\ res_col.tipo = "texto" => res_col.valores = col
           /\ res_col.tipo # "texto" => Len(res_col.valores) = Len(col)
           /\ res_col.tipo = "fecha" =>
                \A k \in 1..Len(col) :
                    k \notin fechas => res_col.valores[k] = NoneFecha
           /\ res_col.tipo = "numero" =>
                \A k \in 1..Len(col) :
                    k \notin numeros => res_col.valores[k] = NoneNumero

\* 7 of 10 values are dates: the column is a date column with 3 missing values
C6_Witness ==
    /\ res_col.hecho
    /\ Len(col) = 10
    /\ Cardinality(FechasEn(col)) = 7
    /\ Cardinality(NoBlancas(col)) = 10
    /\ res_col.tipo = "fecha"
    /\ Cardinality({k \in 1..10 : res_col.valores[k] = NoneFecha}) = 3

-----------------------------------------------------------------------------
(* Properties of parse_rango_paginas *)

EstrictamenteAscendente(l) == \A j, k \in 1..Len(l) : j < k => l[j] < l[k]

\* the page numbers a part names: the number itself, or every number of ini..fin
PaginasNombradas(parte0) ==
    LET parte == Strip(parte0)
    IN IF Contiene(parte, "-")
       THEN LET sp == SplitFirst(parte, "-")
            IN IntPy(sp[1]).val..IntPy(sp[2]).val
       ELSE {IntPy(parte).val}

EsSelectorAll(s) == Lower(Strip(s)) = StrAll

\* C4: whenever parse_rango_paginas returns, the list holds only indices of
\* [0, N), is strictly ascending (hence duplicate-free), holds p-1 for every page
\* p of 1..N the selector names alone or inside a range, and for "all" in any
\* letter case and with surrounding whitespace it is exactly 0, 1, ..., N-1.
C4_IndicesValidos ==
    (res_paginas # Pendiente /\ res_paginas.exc = "") =>
        LET l == res_paginas.val
            N == total_paginas
        IN /\ \A k \in 1..Len(l) : 0 <= l[k] /\ l[k] < N
           /\ EstrictamenteAscendente(l)
           /\ ~EsSelectorAll(paginas_str) =>
                 \A j \in 1..Len(Split(paginas_str, ",")) :
                   \A p \in PaginasNombradas(Split(paginas_str, ",")[j]) \cap (1..N) :
                     \E k \in 1..Len(l) : l[k] = p - 1
           /\ EsSelectorAll(paginas_str) =>
                 /\ Len(l) = N
                 /\ \A k \in 1..N : l[k] = k - 1

\* "0-3" on a 2-page document: 0 and 3 are dropped, pages 1 and 2 are kept
C4_Witness ==
    /\ paginas_str = <<"0", "-", "3">>
    /\ total_paginas = 2
    /\ res_paginas = Ok(<<0, 1>>)

\* an integer literal: digits with an optional minus sign
EsEntero(t) ==
    LET d == IF Len(t) > 0 /\ t[1] = "-" THEN Tail(t) ELSE t
    IN d # <<>> /\ TodosEn(d, Digitos)

\* a hyphenated range of two integer literals
EsRangoDeEnteros(t) ==
    \E k \in 1..Len(t) :
        /\ t[k] = "-"
        /\ EsEntero(SubSeq(t, 1, k - 1))
        /\ EsEntero(SubSeq(t, k + 1, Len(t)))

\* a comma-separated mixture of integers and hyphenated integer ranges
EsMezclaDeEnteros(s) ==
    \A j \in 1..Len(Split(s, ",")) :
        LET t == Strip(Split(s, ",")[j])
        IN EsEntero(t) \/ EsRangoDeEnteros(t)

\* C5: on every comma-separated mixture of integers and integer ranges (0,
\* negative and too large numbers and reversed ranges included) the resolver
\* returns normally, with only in-range indices, and never raises.
C5_Tolerante ==
    (res_paginas # Pendiente /\ EsMezclaDeEnteros(paginas_str)) =>
        /\ res_paginas.exc = ""
        /\ \A k \in 1..Len(res_paginas.val) :
              0 <= res_paginas.val[k] /\ res_paginas.val[k] < total_paginas

-----------------------------------------------------------------------------
(* Properties of procesar_pdf and main *)

Extractores == {"tabula", "pdfplumber", "texto"}

\* the order of the extraction strategies in each mode
OrdenDe(modo) ==
    CASE modo = "auto" -> <<"tabula", "pdfplumber", "texto">>
      [] modo = "tablas" -> <<"tabula", "pdfplumber">>
      [] modo = "texto" -> <<"texto">>

\* the calls of extraction strategies procesar_pdf made for the current file
Extracciones == SelectSeq(llamadas, LAMBDA l : l.fn \in Extractores)

\* the current file (while procesar_pdf runs or has just ended)
Actual == pdfs[idx]

\* C1: for the current file the strategies are invoked in the order of the
\* mode (auto: tabula, pdfplumber, text; tablas: tabula, pdfplumber and never
\* text; texto: text only), a later one only after every earlier one yielded
\* nothing; once a table backend yields a table the next and last call is the
\* writer of tables, with no text extraction; in the mode tablas with no table
\* found procesar_pdf returns with nothing written.
C1_OrdenDeEstrategias ==
    LET ex == Extracciones
        orden == OrdenDe(args.modo)
    IN /\ Len(ex) <= Len(orden)
       /\ \A k \in 1..Len(ex) : ex[k].fn = orden[k]
       /\ \A j, k \in 1..Len(ex) : j < k => ex[j].n = 0
       /\ \A k \in 1..Len(llamadas) :
            (llamadas[k].fn \in {"tabula", "pdfplumber"} /\ llamadas[k].n > 0) =>
                /\ \A j \in 1..Len(llamadas) : llamadas[j].fn # "texto"
                /\ \/ k = Len(llamadas) /\ pc = "guardar_tablas"
                   \/ /\ Len(llamadas) = k + 1
                      /\ llamadas[k + 1].fn = "guardar_tablas"
                      /\ pc \in {"retorno", "excepcion", "reposo"}
                /\ pc = "retorno" => (Actual \in escritos /\ mensaje = "OK tablas")
       /\ (args.modo = "tablas" /\ Len(ex) = 2 /\ ex[2].n = 0) =>
            /\ pc \in {"retorno", "reposo"}
            /\ pc = "retorno" => (mensaje = "Sin tablas encontradas" /\ Actual \notin escritos)
            /\ Len(llamadas) = 2

\* mode auto: tabula finds nothing, pdfplumber finds a table, the tables are
\* written and procesar_pdf returns without any text extraction
C1_Witness ==
    /\ args.modo = "auto"
    /\ pc = "retorno"
    /\ Len(llamadas) = 3
    /\ llamadas[1] = Llamada("tabula", 0, FALSE)
    /\ llamadas[2].fn = "pdfplumber" /\ llamadas[2].n > 0
    /\ llamadas[3].fn = "guardar_tablas"
    /\ Actual \in escritos

FuncionesBackend == {"extraer_tablas_tabula", "extraer_tablas_pdfplumber", "extraer_texto"}

\* C2: in every mode, an exception raised in any of the three backends is
\* caught and counts as no result: no backend's exception leaves procesar_pdf,
\* and a backend in which the library raised yields nothing.
C2_BackendsNoPropagan ==
    /\ exc \notin FuncionesBackend
    /\ \A k \in 1..Len(llamadas) :
         (llamadas[k].fn \in Extractores /\ llamadas[k].fallo) => llamadas[k].n = 0

EsPrefijo(a, b) == Len(a) <= Len(b) /\ a = SubSeq(b, 1, Len(a))

\* a batch over a non-empty list of files
EnBatch == args.batch /\ entrada.tipo = "dir" /\ entrada.pdfs # {}

\* how far the batch is: the files done, then the position inside procesar_pdf
RangoPc ==
    CASE pc = "reposo" -> 0 [] pc = "tabula" -> 1 [] pc = "pdfplumber" -> 2
      [] pc = "guardar_tablas" -> 3 [] pc = "texto" -> 4 [] pc = "guardar_texto" -> 5
      [] pc = "retorno" -> 6 [] pc = "excepcion" -> 6

Avance == (IF estado = "listo" THEN 1 ELSE 0) * 100 * (MaxArchivos + 2) + 10 * idx + RangoPc

C3_Estado ==
    (EnBatch /\ estado # "inicio") =>
        /\ estado \in {"batch", "listo"}
        /\ pdfs = Sorted(entrada.pdfs)
        /\ EstrictamenteAscendente(pdfs)
        /\ EsPrefijo(procesados, pdfs)
        /\ Len(procesados) = (IF pc = "reposo" THEN idx - 1 ELSE idx)
        /\ EsPrefijo(errores, lanzaron)
        /\ Len(lanzaron) = Len(errores) + (IF pc = "excepcion" THEN 1 ELSE 0)
        /\ estado = "batch" => ENABLED Next
        /\ estado = "listo" => (procesados = pdfs /\ errores = lanzaron)

C3_Paso ==
    (EnBatch /\ estado = "batch") =>
        /\ EsPrefijo(errores, errores')
        /\ Avance' > Avance

\* C3: in a batch over a non-empty list of files, the files are handed to
\* procesar_pdf once each, one at a time, in sorted order; a file that raises
\* does not stop the files after it; the list of errors only grows, and at the
\* end it is exactly the files whose processing raised, in order; every step
\* advances the batch, which can only stop at the final message with a
\* successful exit, whatever the number of failures.
C3_BatchCompleto == []C3_Estado /\ [][C3_Paso]_vars

\* a batch of two files where the first raised and the second was written
C3_Witness ==
    /\ EnBatch
    /\ estado = "listo"
    /\ pdfs = <<1, 2>>
    /\ errores = <<1>>
    /\ escritos = {2}

\* the text of every page read is empty (None or ""), and nothing raised
SinTextoEnPaginas ==
    /\ \E k \in 1..Len(llamadas) : llamadas[k].fn = "texto"
    /\ exc = ""
    /\ \A k \in 1..Len(textos) : ~textos[k].exc /\ TextoDePagina(textos[k]) = <<>>

\* C9: in every text configuration (line or page mode, blank lines kept or
\* suppressed), when no selected page produces any text extraer_texto returns
\* an empty frame and procesar_pdf reports that no text was extracted, writes
\* no file and raises nothing.
C9_SinTextoSinArchivo ==
    (pc # "reposo" /\ SinTextoEnPaginas) =>
        /\ FrameVacio(df)
        /\ pc = "retorno"
        /\ mensaje = "Sin texto extraido"
        /\ Actual \notin escritos

-----------------------------------------------------------------------------
(* Properties of _aplicar_formatos_hoja *)

\* what one data cell, as it is after the promotion, asks of the width
AporteDeCelda(v) ==
    IF v.tipo = "datetime" THEN 12
    ELSE IF v.tipo \in {"int", "float"} THEN Len(FormatoMiles2(v))
    ELSE IF Len(v.s) > 50 THEN 50 ELSE Len(v.s)

\* M of a formatted column: the largest of the header's length and of what
\* each cell that holds a value asks
MaximoDeColumna(c) ==
    MaxDe({Len(CabeceraStr(c.cabecera))}
            \cup {AporteDeCelda(c.celdas[k].valor) :
                    k \in {i \in 1..Len(c.celdas) : c.celdas[i].valor.tipo # "None"}})

\* the value of a formatted cell is the cell's, promoted when it is a text
\* that is a date or, failing that, a number
ValorPromovido(antes, despues) ==
    IF antes.tipo = "str" /\ Strip(antes.s) # <<>> /\ _parsear_fecha(Strip(antes.s)).ok
    THEN despues.tipo = "datetime" /\ despues.fecha = _parsear_fecha(Strip(antes.s))
    ELSE IF antes.tipo = "str" /\ Strip(antes.s) # <<>> /\ _parsear_numero(Strip(antes.s)).ok
         THEN despues.tipo = "float" /\ despues.num = _parsear_numero(Strip(antes.s))
    ELSE despues = antes

\* C11: after _aplicar_formatos_hoja every column of the sheet has the width
\* min(M + 3, 55), M being the largest of the header's length and, over the
\* data cells that hold a value, after the cell-level promotion, 12 for a
\* date, the length of the number rendered with thousands grouping and two
\* decimals, and the text's length capped at 50; so the width is between 3
\* and 55, and at least the header's length plus 3 unless it is 55.
C11_AnchoDeColumnas ==
    res_ws.hecho =>
        /\ Len(res_ws.columnas) = (IF ws = <<>> THEN 1 ELSE Len(ws))
        /\ \A j \in 1..Len(res_ws.columnas) :
             LET c == res_ws.columnas[j]
                 M == MaximoDeColumna(c)
             IN /\ ws # <<>> =>
                     /\ c.cabecera = ws[j].cabecera
                     /\ Len(c.celdas) = Len(ws[j].celdas)
                     /\ \A k \in 1..Len(c.celdas) :
                          ValorPromovido(ws[j].celdas[k], c.celdas[k].valor)
                /\ c.width = (IF M + 3 < 55 THEN M + 3 ELSE 55)
                /\ c.width >= 3
                /\ c.width <= 55
                /\ c.width >= Len(CabeceraStr(c.cabecera)) + 3 \/ c.width = 55

\* a formatted sheet with a column whose width comes from a text promoted to
\* a number, wider than its header, and with a column capped at 55
C11_Witness ==
    /\ res_ws.hecho
    /\ Len(ws) = 2
    /\ ws[1] = Columna(Texto(<<"T", "e", "x", "t", "o">>),
                       <<CeldaStr(<<" ", "1", ",", "2", "3", "4", ".", "5", "6", " ">>)>>)
    /\ res_ws.columnas[1].celdas[1].valor.tipo = "float"
    /\ res_ws.columnas[1].width = 11
    /\ ws[2].cabecera = Texto(Letras(LargoCabecera))
    /\ res_ws.columnas[2].width = 55

====
